---------------------------- MODULE Spec2Model ----------------------------
(***************************************************************************)
(* Model of the login security subsystem of web-labs: POST /auth/register  *)
(* and POST /auth/login (backend/routes/auth.ts), the User model hooks     *)
(* (backend/models/User.ts), the mail collaborator                         *)
(* (backend/utils/emailSender.ts) and the start-up check of the signing    *)
(* secret (backend/config/passport.ts).                                    *)
(*                                                                         *)
(* Every handler is an async function: the code between two awaits runs    *)
(* without interleaving, so each action below is one such stretch,         *)
(* starting where an awaited operation resolves.                           *)
(***************************************************************************)
EXTENDS Integers, Sequences, FiniteSets, TLC

VARIABLES
    server,     \* "boot" | "up" | "crashed": the process (config/passport.ts)
    jwtSecret,  \* process.env.JWT_SECRET is set
    db,         \* the users table: a sequence of rows, a row's id is its index
    req,        \* the request handlers in flight, one record per slot
    started,    \* number of requests received so far
    ipLog,      \* history: the account and address of every login persisted
    events      \* the events table: a sequence of rows, a row's id is its index

vars == <<server, jwtSecret, db, req, started, ipLog, events>>

----------------------------------------------------------------------------
(* Bounds and input sets *)

\* Requests received in one behaviour.
MaxRequests == 2

\* Handlers that may be in flight at once.
Slots == {"r1", "r2"}

\* req.ip values; "" is an absent / empty address.
IPs == {"", "ip1"}

\* x-forwarded-for header and socket.remoteAddress values ("" is absent).
ForwardedFor == {"", "ip2"}
RemoteAddrs == {"", "ip1"}

\* user-agent header values; "" is an absent header.
UserAgents == {"", "ua1"}

\* Request body values. "A@x.com" differs from "a@x.com" in letter case only;
\* "short" is too short for register and, for login, a password no account has;
\* "x" is a name of one character.
Emails == {"a@x.com", "A@x.com", "b@x.com", "not-an-email"}
Passwords == {"password1", "short"}
Names == {"Al", "x"}
Salts == {"s1"}

NULL == "null"

----------------------------------------------------------------------------
(* Pure helpers *)

Min(a, b) == IF a < b THEN a ELSE b

Range(s) == {s[i] : i \in 1..Len(s)}

\* Array.prototype.includes
Includes(s, x) == x \in Range(s)

\* Array.prototype.slice(0, n)
Slice(s, n) == SubSeq(s, 1, Min(n, Len(s)))

\* [...new Set(s)]: insertion order, first occurrence of each value kept
RECURSIVE SetSpread(_)
SetSpread(s) ==
    IF s = <<>> THEN <<>>
    ELSE LET init == SetSpread(SubSeq(s, 1, Len(s) - 1))
             last == s[Len(s)]
         IN IF Includes(init, last) THEN init ELSE Append(init, last)

\* crypto.createHash("sha256").update(s).digest("hex")
Sha256(s) == <<"sha256", s>>

\* User.hashDevice
hashDevice(ua) == Sha256(IF ua = "" THEN "unknown" ELSE ua)

\* bcrypt.hash(plain, salt) and bcrypt.compare(candidate, hash)
BcryptHash(plain, salt) == [plain |-> plain, salt |-> salt]
BcryptCompare(candidate, hash) == hash.plain = candidate

\* Values of the password column that are no hash of any plaintext: the
\* column absent (null), the empty string, and a string that is not a bcrypt
\* hash (bcryptjs compares it unequal to every candidate).
AbsentHash == [plain |-> NULL, salt |-> "null"]
EmptyHash == [plain |-> NULL, salt |-> ""]
MalformedHash == [plain |-> NULL, salt |-> "malformed"]

\* Mutant: the address is stored and looked up as typed.
normalizeEmailKeepCase(e) == e

\* express-validator isEmail
isEmail(e) == e # "not-an-email"

\* express-validator normalizeEmail (lower-cases the address)
normalizeEmail(e) == IF e = "A@x.com" THEN "a@x.com" ELSE e

\* the number of older entries the login keeps: slice(0, 4)
SliceKeep == 4

\* Mutant: the older entries are not cut before the new one is put in front.
RecordHistoryNoSlice(x, hist) == SetSpread(<<x>> \o hist)

\* the list written by a login: [...new Set([x, ...hist.slice(0, 4)])]
\* Mutant: the new entry is put last.
RecordHistoryAppends(x, hist) == SetSpread(Slice(hist, SliceKeep) \o <<x>>)

RecordHistory(x, hist) == SetSpread(<<x>> \o Slice(hist, SliceKeep))

\* Mutant: the membership test reads the list the login is about to write.
IsNewAfterRecord(x, hist) == ~Includes(RecordHistory(x, hist), x)

\* Mutant: the Set-membership test of an empty list answers "present".
IsNewUnlessEmptyList(x, hist) == Len(hist) > 0 /\ ~Includes(hist, x)

\* !list.includes(x)
IsNew(x, hist) == ~Includes(hist, x)

\* Mutant: the notification preference is not consulted.
ShouldAlertIgnoringPreference(isNewIp, isNewDevice, pref) == isNewIp \/ isNewDevice

\* Mutant: the alert goes out for every login while the preference is on.
ShouldAlertAlways(isNewIp, isNewDevice, pref) == pref

\* (isNewIp || isNewDevice) && user.notificationPreferences?.newDeviceAlert
ShouldAlert(isNewIp, isNewDevice, pref) == (isNewIp \/ isNewDevice) /\ pref

\* req.ip || x-forwarded-for || req.socket.remoteAddress || ""
ClientIp(ip, xff, remote) ==
    IF ip # "" THEN ip ELSE IF xff # "" THEN xff ELSE IF remote # "" THEN remote ELSE ""

\* req.headers['user-agent'] || "unknown"
UserAgentOf(ua) == IF ua = "" THEN "unknown" ELSE ua

\* Mutant: the where clause is lost and the first row is returned.
FindFirstRow(table, email) == IF Len(table) > 0 THEN 1 ELSE 0

\* User.findOne({ where: { email } }): the row's id, 0 when there is none
FindByEmail(table, email) ==
    IF \E i \in 1..Len(table) : table[i].email = email
    THEN CHOOSE i \in 1..Len(table) : table[i].email = email
    ELSE 0

\* Mutant: the token is signed without an expiry.
JwtSignNoExpiry(id) == [id |-> id, expiresIn |-> "never"]

\* jwt.sign({ id }, secret, { expiresIn: "1h" })
JwtSign(id) == [id |-> id, expiresIn |-> "1h"]
NoToken == [id |-> 0, expiresIn |-> "none"]

----------------------------------------------------------------------------
(* State *)

NoUser == [id |-> 0]

\* What a JSON response body carries: its keys (nested ones with their path),
\* the text values in it and the password hashes in it.
Json(keys, strings, hashes) == [keys |-> keys, strings |-> strings, hashes |-> hashes]
NoBody == Json({}, {}, {})

\* { error: ... } of the 4xx and 5xx answers
ErrorBody == Json({"error"}, {}, {})

\* { errors: errors.array() }: express-validator lists each failed field with
\* the value that was sent for it
ErrorsBody(values) == Json({"errors"}, values, {})

\* 401 of passport.authenticate: the text "Unauthorized"
UnauthorizedBody == Json({}, {"Unauthorized"}, {})

\* The Authorization header of a request: none, or a bearer token with the
\* account id of its payload, the key it was signed with, and whether its
\* hour has passed.
NoBearer == [id |-> 0, key |-> "none", expired |-> FALSE]

\* a token issued by a login, presented in time or late
Present(token, late) == [id |-> token.id, key |-> "JWT_SECRET", expired |-> late]

\* a token signed with another key
Forged(id) == [id |-> id, key |-> "other", expired |-> FALSE]

\* Mutant: the expiry of the token is not looked at.
JwtVerifyIgnoresExpiry(bearer) == bearer # NoBearer /\ bearer.key = "JWT_SECRET"

\* ExtractJwt.fromAuthHeaderAsBearerToken and the verification with
\* secretOrKey: the header is there, the signature is ours, the hour not over
JwtVerify(bearer) ==
    bearer # NoBearer /\ bearer.key = "JWT_SECRET" /\ ~bearer.expired

\* models/Event.ts: a row of the events table; a destroyed row leaves its id
\* unused for ever
NoEvent == [id |-> 0, title |-> NULL, description |-> NULL, date |-> 0, createdBy |-> 0]

\* Event.findByPk: the row's id, 0 when there is none
FindEvent(table, id) ==
    IF id \in 1..Len(table) /\ table[id] # NoEvent THEN id ELSE 0

\* models/User.ts: the columns, and the columns each scope selects
AllAttributes ==
    {"id", "name", "email", "password", "ipHistory", "deviceHistory", "lastLoginIp",
     "newDeviceAlert"}

\* Mutant: the default scope excludes nothing.
defaultScopeKeepsAll == AllAttributes

defaultScope == AllAttributes \ {"password"}
withPassword == AllAttributes \cup {"password"}

\* the instance a query with the given attributes builds from a row
Select(row, attributes) == [a \in attributes |-> row[a]]

\* res.json of instances: every selected column, under its name
JsonRows(rows, attributes) ==
    Json(IF rows = <<>> THEN {} ELSE attributes,
         UNION {{rows[i].name, rows[i].email} : i \in 1..Len(rows)},
         IF "password" \in attributes
         THEN {rows[i].password : i \in 1..Len(rows)} ELSE {})
NoDevice == <<"none", "">>

Idle ==
    [pc |-> "idle", kind |-> "none", email |-> "", password |-> "", name |-> "",
     user |-> NoUser, ip |-> "", deviceHash |-> NoDevice,
     isNewIp |-> FALSE, isNewDevice |-> FALSE,
     mail |-> "none", attempts |-> 0, securityAlert |-> FALSE,
     status |-> 0, token |-> NoToken, error |-> "", body |-> NoBody,
     bearer |-> NoBearer, eventId |-> 0, title |-> NULL, description |-> NULL,
     event |-> NoEvent]

\* The users table when the first modelled request arrives. index.ts empties
\* it at start (sequelize.sync({ force: true })); the rows below stand for what
\* earlier requests of the same run left: every list a register and up to five
\* logins can leave (up to renaming). No route writes newDeviceAlert: a row
\* with the preference off is one changed in the table directly.
SeedIps == <<"ip1", "ip2", "old3", "old4", "old5">>
SeedDevices ==
    <<Sha256("ua1"), Sha256("ua2"), Sha256("old3"), Sha256("old4"), Sha256("old5")>>

SeedAccount(n, pref) ==
    [id |-> 1, name |-> "Al", email |-> "a@x.com",
     password |-> BcryptHash("password1", "s1"),
     ipHistory |-> SubSeq(SeedIps, 1, n),
     deviceHistory |-> SubSeq(SeedDevices, 1, n),
     lastLoginIp |-> IF n = 0 THEN NULL ELSE SeedIps[1],
     newDeviceAlert |-> pref]

Init ==
    /\ server = "boot"
    /\ jwtSecret \in BOOLEAN
    /\ db \in {<<>>} \cup {<<SeedAccount(n, p)>> : n \in 0..Len(SeedIps), p \in BOOLEAN}
    /\ req = [r \in Slots |-> Idle]
    /\ started = 0
    /\ ipLog = <<>>
    /\ events = <<>>


----------------------------------------------------------------------------
(* Validation chains of the two routes *)

NameLength(n) == IF n = "x" THEN 1 ELSE 2
PasswordLength(p) == IF p = "short" THEN 5 ELSE 9

\* body("name").trim().isLength({min: 2}), body("email").isEmail(),
\* body("password").isLength({min: 8})
RegisterValid(name, email, password) ==
    NameLength(name) >= 2 /\ isEmail(email) /\ PasswordLength(password) >= 8

\* body("email").isEmail(), body("password").exists()
LoginValid(email, password) == isEmail(email) /\ password # NULL

\* errors.array(): the values of the fields that failed (an absent password
\* has no value to list)
RegisterErrors(name, email, password) ==
    (IF NameLength(name) >= 2 THEN {} ELSE {name})
      \cup (IF isEmail(email) THEN {} ELSE {email})
      \cup (IF PasswordLength(password) >= 8 THEN {} ELSE {password})

LoginErrors(email, password) == IF isEmail(email) THEN {} ELSE {email}

\* A handler that has sent its response.
Responded(kind, status, token, alert, mail) ==
    [Idle EXCEPT !.pc = "done", !.kind = kind, !.status = status, !.token = token,
                 !.securityAlert = alert, !.mail = mail,
                 !.body = IF status >= 400 THEN ErrorBody ELSE NoBody]

\* The outer catch: the error's message is logged and 500 is answered.
Caught(kind, message, mail) ==
    [Responded(kind, 500, NoToken, FALSE, mail) EXCEPT !.error = message]

----------------------------------------------------------------------------
(* Process start *)

\* Mutant: the module loads without looking at JWT_SECRET.
BootWithoutCheck ==
    /\ server = "boot"
    /\ server' = "up"
    /\ UNCHANGED <<jwtSecret, db, req, started, ipLog, events>>

\* config/passport.ts: a missing JWT_SECRET throws while the module is loaded
Boot ==
    /\ server = "boot"
    /\ server' = IF jwtSecret THEN "up" ELSE "crashed"
    /\ UNCHANGED <<jwtSecret, db, req, started, ipLog, events>>

\* A new request is handled in the first free slot (the slots' names carry no
\* meaning, so this loses no interleaving).
FirstFree(r) == req[r].pc = "idle" /\ (r = "r2" => req["r1"].pc # "idle")

Accepting(r) == server = "up" /\ FirstFree(r) /\ started < MaxRequests

----------------------------------------------------------------------------
(* POST /auth/register *)

\* validation, then User.findOne is issued
Register(r, name, email, password) ==
    /\ Accepting(r)
    /\ started' = started + 1
    /\ req' = [req EXCEPT ![r] =
                 IF ~RegisterValid(name, email, password)
                 THEN [Responded("register", 400, NoToken, FALSE, "none")
                         EXCEPT !.body = ErrorsBody(RegisterErrors(name, email, password))]
                 ELSE [Idle EXCEPT !.pc = "find", !.kind = "register",
                                   !.name = name, !.email = normalizeEmail(email),
                                   !.password = password]]
    /\ UNCHANGED <<server, jwtSecret, db, ipLog, events>>

\* findOne resolves: 409 when the email is taken, else User.create is issued
RegisterFind(r) ==
    /\ req[r].pc = "find" /\ req[r].kind = "register"
    /\ req' = [req EXCEPT ![r] =
                 IF FindByEmail(db, req[r].email) # 0
                 THEN Responded("register", 409, NoToken, FALSE, "none")
                 ELSE [@ EXCEPT !.pc = "create"]]
    /\ UNCHANGED <<server, jwtSecret, db, started, ipLog, events>>

\* Mutant: the beforeCreate hook does not run, the column keeps the value it
\* was given (no salt went into it).
NewAccountUnhashed(id, name, email, password, salt) ==
    [id |-> id, name |-> name, email |-> email,
     password |-> [plain |-> password, salt |-> "unhashed"],
     ipHistory |-> <<>>, deviceHistory |-> <<>>,
     lastLoginIp |-> NULL, newDeviceAlert |-> TRUE]

\* the row User.create inserts: beforeCreate hashes the password and fills
\* the defaults
NewAccount(id, name, email, password, salt) ==
    [id |-> id, name |-> name, email |-> email,
     password |-> BcryptHash(password, salt),
     ipHistory |-> <<>>, deviceHistory |-> <<>>,
     lastLoginIp |-> NULL, newDeviceAlert |-> TRUE]

\* User.create resolves: the unique index on email rejects a second row, and
\* the handler's catch answers 500; else 201 {id, email}
RegisterCreate(r) ==
    /\ req[r].pc = "create"
    /\ \E salt \in Salts :
         IF FindByEmail(db, req[r].email) # 0
         THEN /\ db' = db
              /\ req' = [req EXCEPT ![r] =
                           Caught("register", "Validation error", "none")]
         ELSE /\ db' = Append(db, NewAccount(Len(db) + 1, req[r].name, req[r].email,
                                              req[r].password, salt))
              /\ req' = [req EXCEPT ![r] =
                           [Responded("register", 201, NoToken, FALSE, "none")
                              EXCEPT !.user = [id |-> Len(db) + 1],
                                     !.email = req[r].email,
                                     !.body = Json({"id", "email"}, {req[r].email}, {})]]
    /\ UNCHANGED <<server, jwtSecret, started, ipLog, events>>

----------------------------------------------------------------------------
(* POST /auth/login *)

\* validation, then User.scope("withPassword").findOne is issued
LoginReceived(r, email, password) ==
    /\ started' = started + 1
    /\ req' = [req EXCEPT ![r] =
                 IF ~LoginValid(email, password)
                 THEN [Responded("login", 400, NoToken, FALSE, "none")
                         EXCEPT !.body = ErrorsBody(LoginErrors(email, password))]
                 ELSE [Idle EXCEPT !.pc = "find", !.kind = "login",
                                   !.email = normalizeEmail(email),
                                   !.password = password]]
    /\ UNCHANGED <<server, jwtSecret, db, ipLog, events>>

Login(r, email, password) == Accepting(r) /\ LoginReceived(r, email, password)

\* findOne resolves: 404 when no row matches, else the row is the handler's
\* user instance and comparePassword is issued
LoginFind(r) ==
    /\ req[r].pc = "find" /\ req[r].kind = "login"
    /\ LET id == FindByEmail(db, req[r].email)
       IN req' = [req EXCEPT ![r] =
                    IF id = 0
                    THEN Responded("login", 404, NoToken, FALSE, "none")
                    ELSE [@ EXCEPT !.pc = "compare",
                                   !.user = Select(db[id], withPassword)]]
    /\ UNCHANGED <<server, jwtSecret, db, started, ipLog, events>>

\* Mutant: every candidate password is accepted.
comparePasswordAcceptsAll(user, candidate) == TRUE

\* User.comparePassword, its first line: if (!this.password) throw
PasswordNotSet(user) == user.password \in {AbsentHash, EmptyHash}

\* User.comparePassword, its second line
comparePassword(user, candidate) == BcryptCompare(candidate, user.password)

\* comparePassword rejects when the instance has no password (outer catch,
\* 500), else resolves: 401 on a mismatch; else the client address and
\* device are read, the login is classified and either sendSecurityAlert or
\* user.update is issued
LoginCompare(r, ip, xff, remote, ua) ==
    /\ req[r].pc = "compare"
    /\ LET user == req[r].user
           clientIp == ClientIp(ip, xff, remote)
           userAgent == UserAgentOf(ua)
           deviceHash == hashDevice(userAgent)
           isNewIp == IsNew(clientIp, user.ipHistory)
           isNewDevice == IsNew(deviceHash, user.deviceHistory)
           alert == ShouldAlert(isNewIp, isNewDevice, user.newDeviceAlert)
       IN req' = [req EXCEPT ![r] =
                    IF PasswordNotSet(user)
                    THEN Caught("login", "Password not set", "none")
                    ELSE IF ~comparePassword(user, req[r].password)
                    THEN Responded("login", 401, NoToken, FALSE, "none")
                    ELSE [@ EXCEPT !.pc = IF alert THEN "mailing" ELSE "update",
                                   !.mail = IF alert THEN "pending" ELSE "none",
                                   !.attempts = IF alert THEN @ + 1 ELSE @,
                                   !.ip = clientIp, !.deviceHash = deviceHash,
                                   !.isNewIp = isNewIp, !.isNewDevice = isNewDevice]]
    /\ UNCHANGED <<server, jwtSecret, db, started, ipLog, events>>

\* Mutant: the alert is delivered but securityAlert is left false.
MailOkNoFlag(r) ==
    /\ req[r].pc = "mailing"
    /\ req' = [req EXCEPT ![r] = [@ EXCEPT !.pc = "update", !.mail = "ok"]]
    /\ UNCHANGED <<server, jwtSecret, db, started, ipLog, events>>

\* sendSecurityAlert resolves: securityAlert = true, then user.update is issued
MailOk(r) ==
    /\ req[r].pc = "mailing"
    /\ req' = [req EXCEPT ![r] =
                 [@ EXCEPT !.pc = "update", !.mail = "ok", !.securityAlert = TRUE]]
    /\ UNCHANGED <<server, jwtSecret, db, started, ipLog, events>>

\* Mutant: no inner try/catch, the rejection reaches the handler's outer catch.
MailThrowEscapes(r) ==
    /\ req[r].pc = "mailing"
    /\ req' = [req EXCEPT ![r] = Caught("login", "mail", "threw")]
    /\ UNCHANGED <<server, jwtSecret, db, started, ipLog, events>>

\* Mutant: the inner catch calls sendSecurityAlert once more.
MailThrowRetries(r) ==
    /\ req[r].pc = "mailing" /\ req[r].attempts < 2
    /\ req' = [req EXCEPT ![r] = [@ EXCEPT !.attempts = @ + 1]]
    /\ UNCHANGED <<server, jwtSecret, db, started, ipLog, events>>

\* sendSecurityAlert rejects: the inner catch logs, then user.update is issued
MailThrow(r) ==
    /\ req[r].pc = "mailing"
    /\ req' = [req EXCEPT ![r] = [@ EXCEPT !.pc = "update", !.mail = "threw"]]
    /\ UNCHANGED <<server, jwtSecret, db, started, ipLog, events>>

\* Mutant: lastLoginIp is not among the fields written.
UpdatedRowKeepsLastIp(row, user, clientIp, deviceHash) ==
    [row EXCEPT !.ipHistory = RecordHistory(clientIp, user.ipHistory),
                !.deviceHistory = RecordHistory(deviceHash, user.deviceHistory)]

\* Mutant: a login without an address leaves ipHistory and lastLoginIp alone.
UpdatedRowSkipsEmptyIp(row, user, clientIp, deviceHash) ==
    IF clientIp = ""
    THEN [row EXCEPT !.deviceHistory = RecordHistory(deviceHash, user.deviceHistory)]
    ELSE [row EXCEPT !.ipHistory = RecordHistory(clientIp, user.ipHistory),
                     !.deviceHistory = RecordHistory(deviceHash, user.deviceHistory),
                     !.lastLoginIp = clientIp]

\* Mutant: the new lists are computed from the row as it is when written.
UpdatedRowFromCurrent(row, user, clientIp, deviceHash) ==
    [row EXCEPT !.ipHistory = RecordHistory(clientIp, row.ipHistory),
                !.deviceHistory = RecordHistory(deviceHash, row.deviceHistory),
                !.lastLoginIp = clientIp]

\* the row after user.update({ipHistory, deviceHistory, lastLoginIp}), the new
\* lists computed from the handler's user instance
UpdatedRow(row, user, clientIp, deviceHash) ==
    [row EXCEPT !.ipHistory = RecordHistory(clientIp, user.ipHistory),
                !.deviceHistory = RecordHistory(deviceHash, user.deviceHistory),
                !.lastLoginIp = clientIp]

\* after the update: the JWT_SECRET check (its throw goes to the outer catch),
\* jwt.sign and the 200 response
LoginAnswer(secret, user, alert, mail) ==
    IF ~secret
    THEN Caught("login", "JWT_SECRET is not configured", mail)
    ELSE [Responded("login", 200, JwtSign(user.id), alert, mail)
            EXCEPT !.user = [id |-> user.id],
                   !.name = user.name, !.email = user.email,
                   !.body = Json({"token", "securityAlert", "user", "user.id",
                                  "user.name", "user.email"},
                                 {user.name, user.email}, {})]

\* the fields user.update of the login sets
LoginChanges == {"ipHistory", "deviceHistory", "lastLoginIp"}

\* a stored hash as the string it is
HashText(hash) == "$2a$" \o hash.salt \o "$" \o hash.plain

\* Mutant: the hook hashes the password column on every update.
beforeUpdateAlways(user, changed, salt) ==
    [user EXCEPT !.password = BcryptHash(HashText(@), salt)]

\* User.beforeUpdate: the password is hashed (again) when it is among the
\* fields the update changes
beforeUpdate(user, changed, salt) ==
    IF "password" \in changed
    THEN [user EXCEPT !.password = BcryptHash(HashText(@), salt)]
    ELSE user

\* The handler's last stretch, from the resolved user.update on, for a handler
\* h at its update, the table as it is and process.env.JWT_SECRET set or not:
\* the table with the row written, and after it the answer.
UpdateThenAnswer(secret, salt, table, h) ==
    [db |-> [table EXCEPT ![h.user.id] =
               beforeUpdate(UpdatedRow(@, h.user, h.ip, h.deviceHash),
                            LoginChanges, salt)],
     answer |-> [LoginAnswer(secret, h.user, h.securityAlert, h.mail)
                   EXCEPT !.attempts = h.attempts]]

\* user.update resolves; then the JWT_SECRET check, jwt.sign and the response
LoginUpdate(r) ==
    /\ req[r].pc = "update"
    /\ \E salt \in Salts :
         LET result == UpdateThenAnswer(jwtSecret, salt, db, req[r])
         IN /\ db' = result.db
            /\ req' = [req EXCEPT ![r] = result.answer]
            /\ ipLog' = Append(ipLog, [id |-> req[r].user.id, ip |-> req[r].ip])
    /\ UNCHANGED <<server, jwtSecret, started, events>>

----------------------------------------------------------------------------
(* GET /users *)

\* User.findAll is issued
ListUsers(r) ==
    /\ Accepting(r)
    /\ started' = started + 1
    /\ req' = [req EXCEPT ![r] = [Idle EXCEPT !.pc = "findAll", !.kind = "list"]]
    /\ UNCHANGED <<server, jwtSecret, db, ipLog, events>>

\* findAll resolves with the rows as the default scope selects them: 200 and
\* the instances as JSON
ListUsersFind(r) ==
    /\ req[r].pc = "findAll"
    /\ req' = [req EXCEPT ![r] =
                 [Responded("list", 200, NoToken, FALSE, "none")
                    EXCEPT !.body = JsonRows(db, defaultScope)]]
    /\ UNCHANGED <<server, jwtSecret, db, started, ipLog, events>>

----------------------------------------------------------------------------
(* POST /events, PUT /events/:id, DELETE /events/:id *)

EventKinds == {"createEvent", "updateEvent", "deleteEvent"}

\* the strategy failed: 401 "Unauthorized", the route's handler is not run
Unauthorized(kind, bearer) ==
    [Responded(kind, 401, NoToken, FALSE, "none")
       EXCEPT !.body = UnauthorizedBody, !.bearer = bearer]

\* passport.authenticate("jwt", { session: false }): a request without a
\* token that verifies is answered 401 at once; else the strategy's
\* User.findByPk(payload.id) is issued
EventRequest(r, kind, bearer) ==
    /\ started' = started + 1
    /\ req' = [req EXCEPT ![r] =
                 IF ~JwtVerify(bearer)
                 THEN Unauthorized(kind, bearer)
                 ELSE [Idle EXCEPT !.pc = "authFind", !.kind = kind, !.bearer = bearer]]
    /\ UNCHANGED <<server, jwtSecret, db, ipLog, events>>

\* the strategy's findByPk resolves: done(null, false) is 401; done(null,
\* user) sets req.user and the route's handler runs to its first await: POST
\* reads title and description (400 without a title) and issues Event.create,
\* PUT and DELETE issue Event.findByPk(req.params.id)
AuthFind(r, eventId, title, description) ==
    /\ req[r].pc = "authFind"
    /\ LET id == req[r].bearer.id
           kind == req[r].kind
       IN req' = [req EXCEPT ![r] =
                    IF ~(id \in 1..Len(db))
                    THEN Unauthorized(kind, req[r].bearer)
                    ELSE IF kind # "createEvent"
                    THEN [@ EXCEPT !.pc = "eventFind", !.eventId = eventId,
                                   !.user = Select(db[id], defaultScope)]
                    ELSE IF title \in {NULL, ""}
                    THEN Responded(kind, 400, NoToken, FALSE, "none")
                    ELSE [@ EXCEPT !.pc = "eventCreate", !.title = title,
                                   !.description = description,
                                   !.user = Select(db[id], defaultScope)]]
    /\ UNCHANGED <<server, jwtSecret, db, started, ipLog, events>>

\* the strategy's findByPk rejects: done(error, false), and Express answers
\* the error with 500
AuthError(r) ==
    /\ req[r].pc = "authFind"
    /\ req' = [req EXCEPT ![r] = Caught(req[r].kind, "persistence", "none")]
    /\ UNCHANGED <<server, jwtSecret, db, started, ipLog, events>>

\* Event.create resolves: the row is inserted, 201
EventCreate(r) ==
    /\ req[r].pc = "eventCreate"
    /\ events' = Append(events,
                        [id |-> Len(events) + 1, title |-> req[r].title,
                         description |-> req[r].description, date |-> started,
                         createdBy |-> req[r].user.id])
    /\ req' = [req EXCEPT ![r] = Responded(req[r].kind, 201, NoToken, FALSE, "none")]
    /\ UNCHANGED <<server, jwtSecret, db, started, ipLog>>

\* Mutant: the handler does not compare req.user.id with event.createdBy.
EventFindNoOwnerCheck(r, title, description) ==
    /\ req[r].pc = "eventFind"
    /\ LET id == FindEvent(events, req[r].eventId)
           kind == req[r].kind
       IN req' = [req EXCEPT ![r] =
                    IF id = 0
                    THEN Responded(kind, 404, NoToken, FALSE, "none")
                    ELSE IF kind = "deleteEvent"
                    THEN [@ EXCEPT !.pc = "eventDestroy", !.event = events[id]]
                    ELSE IF title = NULL /\ description = NULL
                    THEN Responded(kind, 400, NoToken, FALSE, "none")
                    ELSE [@ EXCEPT !.pc = "eventUpdate", !.event = events[id],
                                   !.title = title, !.description = description]]
    /\ UNCHANGED <<server, jwtSecret, db, started, ipLog, events>>

\* Event.findByPk resolves: 404 when there is no row, 403 when the row is
\* another account's; PUT then reads title and description (400 with
\* neither) and issues event.update, DELETE issues event.destroy
EventFind(r, title, description) ==
    /\ req[r].pc = "eventFind"
    /\ LET id == FindEvent(events, req[r].eventId)
           kind == req[r].kind
       IN req' = [req EXCEPT ![r] =
                    IF id = 0
                    THEN Responded(kind, 404, NoToken, FALSE, "none")
                    ELSE IF req[r].user.id # events[id].createdBy
                    THEN Responded(kind, 403, NoToken, FALSE, "none")
                    ELSE IF kind = "deleteEvent"
                    THEN [@ EXCEPT !.pc = "eventDestroy", !.event = events[id]]
                    ELSE IF title = NULL /\ description = NULL
                    THEN Responded(kind, 400, NoToken, FALSE, "none")
                    ELSE [@ EXCEPT !.pc = "eventUpdate", !.event = events[id],
                                   !.title = title, !.description = description]]
    /\ UNCHANGED <<server, jwtSecret, db, started, ipLog, events>>

\* the row after UPDATE ... SET of the fields given, WHERE id; a row
\* destroyed meanwhile stays gone
UpdatedEvent(row, title, description) ==
    IF row = NoEvent THEN row
    ELSE [row EXCEPT !.title = IF title = NULL THEN @ ELSE title,
                     !.description = IF description = NULL THEN @ ELSE description]

\* event.update resolves: an empty title fails the model's notEmpty and the
\* handler's catch answers 500; else the row is written, 200
EventUpdate(r) ==
    /\ req[r].pc = "eventUpdate"
    /\ IF req[r].title = ""
       THEN /\ events' = events
            /\ req' = [req EXCEPT ![r] =
                         Caught(req[r].kind, "Validation error", "none")]
       ELSE /\ events' = [events EXCEPT ![req[r].event.id] =
                            UpdatedEvent(@, req[r].title, req[r].description)]
            /\ req' = [req EXCEPT ![r] =
                         Responded(req[r].kind, 200, NoToken, FALSE, "none")]
    /\ UNCHANGED <<server, jwtSecret, db, started, ipLog>>

\* event.destroy resolves: the row is gone, 204
EventDestroy(r) ==
    /\ req[r].pc = "eventDestroy"
    /\ events' = [events EXCEPT ![req[r].event.id] = NoEvent]
    /\ req' = [req EXCEPT ![r] = Responded(req[r].kind, 204, NoToken, FALSE, "none")]
    /\ UNCHANGED <<server, jwtSecret, db, started, ipLog>>

----------------------------------------------------------------------------
(* All routes *)

\* Mutant: no try/catch, the rejection is left unhandled and nothing is
\* answered.
DbErrorEscapes(r) ==
    /\ req[r].pc \in {"find", "findAll", "create", "update",
                     "eventCreate", "eventFind", "eventUpdate", "eventDestroy"}
    /\ req' = [req EXCEPT ![r] = [@ EXCEPT !.pc = "unhandled", !.error = "persistence"]]
    /\ UNCHANGED <<server, jwtSecret, db, started, ipLog, events>>

\* an awaited call of the model (User or Event) rejects: the handler's catch
\* answers 500
DbError(r) ==
    /\ req[r].pc \in {"find", "findAll", "create", "update",
                     "eventCreate", "eventFind", "eventUpdate", "eventDestroy"}
    /\ req' = [req EXCEPT ![r] =
                 [Caught(req[r].kind, "persistence", req[r].mail)
                    EXCEPT !.attempts = req[r].attempts]]
    /\ UNCHANGED <<server, jwtSecret, db, started, ipLog, events>>

\* the response is sent and the handler is gone
Release(r) ==
    /\ req[r].pc = "done"
    /\ req' = [req EXCEPT ![r] = Idle]
    /\ UNCHANGED <<server, jwtSecret, db, started, ipLog, events>>

Next ==
    \/ Boot
    \/ \E r \in Slots, n \in Names, e \in Emails, p \in Passwords : Register(r, n, e, p)
    \/ \E r \in Slots : RegisterFind(r)
    \/ \E r \in Slots : RegisterCreate(r)
    \/ \E r \in Slots, e \in Emails, p \in Passwords \cup {NULL} : Login(r, e, p)
    \/ \E r \in Slots : LoginFind(r)
    \/ \E r \in Slots, ip \in IPs, xff \in ForwardedFor, ra \in RemoteAddrs,
          ua \in UserAgents : LoginCompare(r, ip, xff, ra, ua)
    \/ \E r \in Slots : MailOk(r)
    \/ \E r \in Slots : MailThrow(r)
    \/ \E r \in Slots : LoginUpdate(r)
    \/ \E r \in Slots : ListUsers(r)
    \/ \E r \in Slots : ListUsersFind(r)
    \/ \E r \in Slots : DbError(r)
    \/ \E r \in Slots : Release(r)

Spec == Init /\ [][Next]_vars

\* The handlers' own steps and the database's answers always come; when, or
\* whether, the mail transport answers is not in the process's hands.
HandlerStep(r) ==
    \/ RegisterFind(r) \/ RegisterCreate(r)
    \/ LoginFind(r)
    \/ \E ip \in IPs, xff \in ForwardedFor, ra \in RemoteAddrs, ua \in UserAgents :
          LoginCompare(r, ip, xff, ra, ua)
    \/ LoginUpdate(r) \/ ListUsersFind(r) \/ DbError(r)
    \/ Release(r)

FairSpec == Spec /\ WF_vars(Boot) /\ \A r \in Slots : WF_vars(HandlerStep(r))

----------------------------------------------------------------------------
(* Logins one after another: one client, each login sent after the answer to
   the one before, to a newly registered account *)

MaxSeqLogins == 6

\* Addresses are compared for equality only, so the k-th address not seen
\* before is given the k-th name.
SeqIPs == <<"a1", "a2", "a3", "a4", "a5", "a6", "a7", "a8">>

LoggedIps == {ipLog[i].ip : i \in 1..Len(ipLog)}

NextIps ==
    LoggedIps \cup (IF Cardinality(LoggedIps) < Len(SeqIPs)
                    THEN {SeqIPs[Cardinality(LoggedIps) + 1]} ELSE {})

SeqInit ==
    /\ server = "boot"
    /\ jwtSecret = TRUE
    /\ db \in {<<SeedAccount(0, p)>> : p \in BOOLEAN}
    /\ req = [r \in Slots |-> Idle]
    /\ started = 0
    /\ ipLog = <<>>
    /\ events = <<>>

SeqLogin(r, email, password) ==
    /\ server = "up" /\ r = "r1" /\ req[r].pc = "idle" /\ started < MaxSeqLogins
    /\ LoginReceived(r, email, password)

SeqNext ==
    \/ Boot
    \/ \E r \in Slots, p \in Passwords : SeqLogin(r, "a@x.com", p)
    \/ \E r \in Slots : LoginFind(r)
    \/ \E r \in Slots, ip \in NextIps, ua \in UserAgents : LoginCompare(r, ip, "", "", ua)
    \/ \E r \in Slots : MailOk(r)
    \/ \E r \in Slots : MailThrow(r)
    \/ \E r \in Slots : LoginUpdate(r)
    \/ \E r \in Slots : DbError(r)
    \/ \E r \in Slots : Release(r)

SeqSpec == SeqInit /\ [][SeqNext]_vars

----------------------------------------------------------------------------
(* Logins to an account whose password column holds any value: a hash, or
   one of the values a change of the table outside the routes can leave *)

StoredPasswords == {BcryptHash("password1", "s1"), AbsentHash, EmptyHash, MalformedHash}

StoredInit ==
    /\ server = "boot"
    /\ jwtSecret = TRUE
    /\ db \in {<<[SeedAccount(n, TRUE) EXCEPT !.password = h]>> :
                 n \in 0..1, h \in StoredPasswords}
    /\ req = [r \in Slots |-> Idle]
    /\ started = 0
    /\ ipLog = <<>>
    /\ events = <<>>

StoredNext ==
    \/ Boot
    \/ \E r \in Slots, e \in Emails, p \in Passwords \cup {NULL} : Login(r, e, p)
    \/ \E r \in Slots : LoginFind(r)
    \/ \E r \in Slots, ip \in IPs, xff \in ForwardedFor, ra \in RemoteAddrs,
          ua \in UserAgents : LoginCompare(r, ip, xff, ra, ua)
    \/ \E r \in Slots : MailOk(r)
    \/ \E r \in Slots : MailThrow(r)
    \/ \E r \in Slots : LoginUpdate(r)
    \/ \E r \in Slots : DbError(r)
    \/ \E r \in Slots : Release(r)

StoredSpec == StoredInit /\ [][StoredNext]_vars

----------------------------------------------------------------------------
(* The events routes, used by two registered accounts *)

MaxEventRequests == 2

\* tokens of the two accounts, in time and late, a token of an account that
\* is not in the table, a token signed with another key, and no token
Bearers ==
    {NoBearer, Forged(1)}
      \cup {Present(JwtSign(id), FALSE) : id \in 1..3}
      \cup {Present(JwtSign(1), TRUE)}

EventIds == 1..2
Titles == {NULL, "", "t1", "t2"}
Descriptions == {NULL, "d1"}

\* an event the first account created earlier in the run
SeedEvent ==
    [id |-> 1, title |-> "t1", description |-> NULL, date |-> 0, createdBy |-> 1]

EventInit ==
    /\ server = "boot"
    /\ jwtSecret = TRUE
    /\ db = <<SeedAccount(1, TRUE), NewAccount(2, "Al", "b@x.com", "password1", "s1")>>
    /\ req = [r \in Slots |-> Idle]
    /\ started = 0
    /\ ipLog = <<>>
    /\ events \in {<<>>, <<SeedEvent>>}

EventArrives(r, kind, bearer) ==
    /\ server = "up" /\ FirstFree(r) /\ started < MaxEventRequests
    /\ EventRequest(r, kind, bearer)

EventNext ==
    \/ Boot
    \/ \E r \in Slots, k \in EventKinds, b \in Bearers : EventArrives(r, k, b)
    \/ \E r \in Slots, id \in EventIds, t \in Titles, d \in Descriptions :
          AuthFind(r, id, t, d)
    \/ \E r \in Slots : AuthError(r)
    \/ \E r \in Slots : EventCreate(r)
    \/ \E r \in Slots, t \in Titles, d \in Descriptions : EventFind(r, t, d)
    \/ \E r \in Slots : EventUpdate(r)
    \/ \E r \in Slots : EventDestroy(r)
    \/ \E r \in Slots : DbError(r)
    \/ \E r \in Slots : Release(r)

EventSpec == EventInit /\ [][EventNext]_vars

----------------------------------------------------------------------------
(* Properties *)

NoDuplicates(s) == \A i, j \in 1..Len(s) : i # j => s[i] # s[j]

\* letter case folded
LowerCase(e) == IF e = "A@x.com" THEN "a@x.com" ELSE e

\* section 4.2, record: prepend, deduplicate keeping first occurrences, then
\* truncate to 5
PrependDedupTruncate(x, prior) == Slice(SetSpread(<<x>> \o prior), 5)

\* handler r is at its user.update and answers 200 in this step
Persists(r) == req[r].pc = "update" /\ req'[r].pc = "done" /\ req'[r].status = 200

\* handler r takes a step that is not the rejection of a persistence call
Resolves(r) == req'[r] # req[r] /\ req'[r].error # "persistence"

\* C1: the ipHistory (deviceHistory) a successful login persists is the IP
\* (device fingerprint) prepended to the list the login read, deduplicated
\* keeping first occurrences, then cut to its first 5 entries.
C1_PersistedIsPrependDedupTruncate ==
    [][\A r \in Slots :
         Persists(r) =>
           LET user == req[r].user
           IN /\ db'[user.id].ipHistory = PrependDedupTruncate(req[r].ip, user.ipHistory)
              /\ db'[user.id].deviceHistory =
                   PrependDedupTruncate(req[r].deviceHash, user.deviceHistory)]_vars

\* C2: in every reachable state every account's ipHistory and deviceHistory
\* hold at most 5 entries and no entry twice.
C2_HistoriesBounded ==
    \A i \in 1..Len(db) :
        /\ Len(db[i].ipHistory) <= 5 /\ NoDuplicates(db[i].ipHistory)
        /\ Len(db[i].deviceHistory) <= 5 /\ NoDuplicates(db[i].deviceHistory)

\* a login of a new address and device on full lists has been persisted
C2_Witness ==
    \E i \in 1..Len(db) :
        /\ Len(db[i].ipHistory) = 5 /\ db[i].ipHistory[1] = ""
        /\ Len(db[i].deviceHistory) = 5 /\ db[i].deviceHistory[1] = Sha256("unknown")

\* the login's address (device) is absent from the list its handler read
AbsentIp(r) == ~(req[r].ip \in Range(req[r].user.ipHistory))
AbsentDevice(r) == ~(req[r].deviceHash \in Range(req[r].user.deviceHistory))

\* handler r has classified its login and not yet answered
Classified(r) == req[r].pc \in {"mailing", "update"}

\* C3: isNewIp and isNewDevice are the membership tests on the lists as the
\* handler read them, before its own update; the steps that classify and
\* dispatch the alert write nothing, and when the lists are persisted no
\* dispatch is pending: a login from an address absent from the pre-login
\* list is classified new although the same login then records it.
C3_ClassifiedBeforeRecorded ==
    /\ [](\A r \in Slots :
            Classified(r) =>
              /\ req[r].isNewIp = AbsentIp(r)
              /\ req[r].isNewDevice = AbsentDevice(r))
    /\ [][\A r \in Slots :
            /\ (req[r].pc \in {"compare", "mailing"} /\ req'[r] # req[r]) => db' = db
            /\ Persists(r) =>
                 /\ req[r].mail # "pending"
                 /\ (AbsentIp(r) =>
                       /\ req[r].isNewIp
                       /\ req[r].ip \in Range(db'[req[r].user.id].ipHistory))
                 /\ (AbsentDevice(r) =>
                       /\ req[r].isNewDevice
                       /\ req[r].deviceHash \in Range(db'[req[r].user.id].deviceHistory))]_vars

\* an alert was sent for a new address, and the address is still to be written
C3_Witness ==
    \E r \in Slots :
        /\ req[r].pc = "update" /\ req[r].mail = "ok"
        /\ req[r].isNewIp /\ AbsentIp(r)
        /\ ~(req[r].ip \in Range(db[req[r].user.id].ipHistory))

\* C4: in a login whose password was verified the mail collaborator is
\* invoked exactly when (the address is absent from ipHistory or the device
\* from deviceHistory) and the account's newDeviceAlert is on; no other
\* request invokes it.
C4_AlertIffNovelAndEnabled ==
    \A r \in Slots :
        /\ Classified(r) =>
             ((req[r].mail # "none") <=>
                ((AbsentIp(r) \/ AbsentDevice(r)) /\ req[r].user.newDeviceAlert))
        /\ req[r].pc \in {"idle", "find", "create", "compare"} => req[r].mail = "none"
        /\ (req[r].pc = "done" /\ req[r].status \in {201, 400, 401, 404, 409}) =>
             req[r].mail = "none"

\* preference off, address and device both new, nothing dispatched
C4_Witness ==
    \E r \in Slots :
        /\ req[r].pc = "update" /\ req[r].mail = "none"
        /\ ~req[r].user.newDeviceAlert
        /\ AbsentIp(r) /\ AbsentDevice(r)

\* C5: when the mail collaborator throws, the login goes on to its update
\* with securityAlert false, and unless that update itself is rejected it
\* answers 200 with securityAlert false and a token, the lists persisted.
C5_MailFailureNotFatal ==
    [][\A r \in Slots :
         /\ (req[r].pc = "mailing" /\ req'[r].mail = "threw") =>
              /\ req'[r].pc = "update" /\ ~req'[r].securityAlert
              /\ req'[r].status = 0
         /\ (req[r].pc = "update" /\ req[r].mail = "threw" /\ Resolves(r)) =>
              /\ req'[r].status = 200
              /\ ~req'[r].securityAlert
              /\ req'[r].token = JwtSign(req[r].user.id)
              /\ req[r].ip \in Range(db'[req[r].user.id].ipHistory)
              /\ req[r].deviceHash \in Range(db'[req[r].user.id].deviceHistory)
              /\ db'[req[r].user.id].lastLoginIp = req[r].ip]_vars

\* a login answered 200 after its alert failed
C5_Witness ==
    \E r \in Slots :
        /\ req[r].pc = "done" /\ req[r].status = 200 /\ req[r].mail = "threw"
        /\ ~req[r].securityAlert /\ req[r].token # NoToken

\* C6: a login whose password was verified eventually answers, whether or
\* not the mail collaborator ever completes.
C6_VerifiedLoginResponds ==
    \A r \in Slots : Classified(r) ~> (req[r].pc = "done")

\* C7: a login with an existing email and a wrong password answers 401, with
\* no token and no mail, and the table is left as it was.
C7_WrongPasswordChangesNothing ==
    [][\A r \in Slots :
         (/\ req[r].pc = "compare"
          /\ req[r].password # req[r].user.password.plain
          /\ req'[r] # req[r]) =>
            /\ req'[r].pc = "done" /\ req'[r].status = 401
            /\ req'[r].token = NoToken /\ req'[r].mail = "none"
            /\ db' = db]_vars

\* a login answered 401
C7_Witness ==
    \E r \in Slots : req[r].pc = "done" /\ req[r].kind = "login" /\ req[r].status = 401

\* some account's email is e
EmailExists(e) == \E i \in 1..Len(db) : db[i].email = e

\* C8: a login whose lookup matches no account answers 404, with no token
\* and no mail, and no account is created or modified.
C8_UnknownEmailIs404 ==
    [][\A r \in Slots :
         (/\ req[r].pc = "find" /\ req[r].kind = "login"
          /\ ~EmailExists(req[r].email)
          /\ Resolves(r)) =>
            /\ req'[r].pc = "done" /\ req'[r].status = 404
            /\ req'[r].token = NoToken /\ req'[r].mail = "none"
            /\ db' = db]_vars

\* a login answered 404 while the table holds an account
C8_Witness ==
    \E r \in Slots :
        /\ req[r].pc = "done" /\ req[r].kind = "login" /\ req[r].status = 404
        /\ Len(db) > 0

\* C9: no two accounts have the same email up to letter case, and a register
\* whose lookup finds an account with its email (up to letter case) answers
\* 409 and leaves the accounts as they were.
C9_EmailUniqueCaseInsensitive ==
    /\ [](\A i, j \in 1..Len(db) :
            i # j => LowerCase(db[i].email) # LowerCase(db[j].email))
    /\ [][\A r \in Slots :
            (/\ req[r].pc = "find" /\ req[r].kind = "register"
             /\ \E i \in 1..Len(db) : LowerCase(db[i].email) = LowerCase(req[r].email)
             /\ Resolves(r)) =>
               /\ req'[r].pc = "done" /\ req'[r].status = 409
               /\ db' = db]_vars

\* a register answered 409
C9_Witness ==
    \E r \in Slots :
        req[r].pc = "done" /\ req[r].kind = "register" /\ req[r].status = 409

\* C10: a successful login from the address (device) the preceding login
\* recorded, the one at the front of the list, leaves the list as it was.
C10_RepeatIsIdempotent ==
    [][\A r \in Slots :
         Persists(r) =>
           LET user == req[r].user
           IN /\ (user.ipHistory # <<>> /\ user.ipHistory[1] = req[r].ip) =>
                   db'[user.id].ipHistory = user.ipHistory
              /\ (user.deviceHistory # <<>> /\ user.deviceHistory[1] = req[r].deviceHash) =>
                   db'[user.id].deviceHistory = user.deviceHistory]_vars


\* the addresses of the last n logins persisted, most recent first
RecentIps(n) == [i \in 1..n |-> ipLog[Len(ipLog) + 1 - i].ip]

LogDistinct == \A i, j \in 1..Len(ipLog) : i # j => ipLog[i].ip # ipLog[j].ip

\* C11: from an empty ipHistory, once successful logins from 6 (or more)
\* pairwise distinct addresses have been made one after another, ipHistory is
\* the 5 most recent of them, most recent first, and no older one is in it.
C11_SixDistinctKeepFiveRecent ==
    (Len(ipLog) >= 6 /\ LogDistinct) =>
        /\ db[1].ipHistory = RecentIps(5)
        /\ \A i \in 1..(Len(ipLog) - 5) : ~Includes(db[1].ipHistory, ipLog[i].ip)

C11_Witness ==
    /\ Len(ipLog) = 6 /\ LogDistinct
    /\ req["r1"].pc = "done" /\ req["r1"].status = 200
    /\ db[1].ipHistory = <<"a6", "a5", "a4", "a3", "a2">>

\* handler r's password is verified in this step
Verifies(r) == req[r].pc = "compare" /\ req'[r].pc \in {"mailing", "update"}

\* C12: a login with correct credentials from an address and a device both
\* absent from the account's lists, the preference on and the mail delivered,
\* dispatches the alert, and unless its update is rejected answers 200 with
\* securityAlert true and a token, the address and the device persisted.
C12_NovelLoginAlertsAndSucceeds ==
    /\ [](\A r \in Slots :
            (req[r].pc = "update" /\ req[r].mail = "ok") => req[r].securityAlert)
    /\ [][\A r \in Slots :
            /\ (/\ Verifies(r)
                /\ ~(req'[r].ip \in Range(req[r].user.ipHistory))
                /\ ~(req'[r].deviceHash \in Range(req[r].user.deviceHistory))
                /\ req[r].user.newDeviceAlert) =>
                 req'[r].pc = "mailing" /\ req'[r].mail = "pending"
            /\ (req[r].pc = "mailing" /\ req'[r].mail = "ok") =>
                 req'[r].pc = "update" /\ req'[r].securityAlert
            /\ (/\ req[r].pc = "update" /\ req[r].mail = "ok"
                /\ AbsentIp(r) /\ AbsentDevice(r) /\ Resolves(r)) =>
                 /\ req'[r].status = 200
                 /\ req'[r].securityAlert
                 /\ req'[r].token = JwtSign(req[r].user.id)
                 /\ req[r].ip \in Range(db'[req[r].user.id].ipHistory)
                 /\ req[r].deviceHash \in Range(db'[req[r].user.id].deviceHistory)]_vars

\* the only login so far, to an account registered in this run, was answered
\* 200 with securityAlert true
C12_Witness ==
    \E r \in Slots :
        /\ req[r].pc = "done" /\ req[r].status = 200 /\ req[r].mail = "ok"
        /\ req[r].securityAlert /\ req[r].token # NoToken
        /\ Len(ipLog) = 1 /\ db[1].email = "b@x.com"
        /\ db[1].ipHistory = <<ipLog[1].ip>> /\ Len(db[1].deviceHistory) = 1

\* C13: a login with correct credentials from an address in ipHistory and a
\* device in deviceHistory dispatches no mail, and unless its update is
\* rejected answers 200 with securityAlert false.
C13_KnownLoginIsSilent ==
    /\ [](\A r \in Slots :
            (Classified(r) /\ ~AbsentIp(r) /\ ~AbsentDevice(r)) =>
               req[r].pc = "update" /\ req[r].mail = "none" /\ ~req[r].securityAlert)
    /\ [][\A r \in Slots :
            /\ (/\ Verifies(r)
                /\ req'[r].ip \in Range(req[r].user.ipHistory)
                /\ req'[r].deviceHash \in Range(req[r].user.deviceHistory)) =>
                 req'[r].pc = "update" /\ req'[r].mail = "none"
            /\ (/\ req[r].pc = "update" /\ ~AbsentIp(r) /\ ~AbsentDevice(r)
                /\ Resolves(r)) =>
                 /\ req'[r].status = 200
                 /\ ~req'[r].securityAlert
                 /\ req'[r].mail = "none"
                 /\ req'[r].token = JwtSign(req[r].user.id)]_vars

\* a login from the known address and device of an account with the
\* preference on was answered 200 without an alert
C13_Witness ==
    \E r \in Slots :
        /\ req[r].pc = "done" /\ req[r].status = 200 /\ req[r].mail = "none"
        /\ ~req[r].securityAlert
        /\ Len(ipLog) = 1 /\ ipLog[1].ip = "ip1"
        /\ db[1].newDeviceAlert
        /\ db[1].ipHistory = <<"ip1">> /\ db[1].deviceHistory = <<Sha256("ua1")>>

\* C14: a login that read both lists empty (the first successful login of a
\* newly registered account) is classified new-address and new-device,
\* whatever the address and the User-Agent, empty or absent included.
C14_FirstLoginIsNovel ==
    \A r \in Slots :
        (/\ Classified(r)
         /\ req[r].user.ipHistory = <<>> /\ req[r].user.deviceHistory = <<>>) =>
            req[r].isNewIp /\ req[r].isNewDevice

\* the first login of an account registered in this run, with no address and
\* no User-Agent
C14_Witness ==
    \E r \in Slots :
        /\ Classified(r) /\ req[r].user.email = "b@x.com"
        /\ req[r].user.ipHistory = <<>> /\ req[r].user.deviceHistory = <<>>
        /\ req[r].ip = "" /\ req[r].deviceHash = hashDevice("unknown")
        /\ req[r].isNewIp /\ req[r].isNewDevice

\* C15: of two logins to one account that overlap, each writes the lists it
\* computed from the lists it read itself: a write replaces the row's lists
\* whole, whatever the other login wrote in between, so the lists finally
\* persisted are those of the login whose write was applied last.
C15_LastWriteWins ==
    [][/\ \A r \in Slots :
            (req[r].pc = "update" /\ Resolves(r)) =>
               LET user == req[r].user
               IN /\ db'[user.id].ipHistory = RecordHistory(req[r].ip, user.ipHistory)
                  /\ db'[user.id].deviceHistory =
                       RecordHistory(req[r].deviceHash, user.deviceHistory)
                  /\ db'[user.id].lastLoginIp = req[r].ip
                  /\ \A i \in 1..Len(db) : i # user.id => db'[i] = db[i]
       /\ \A i \in 1..Len(db) :
            db'[i] # db[i] =>
               \E r \in Slots : req[r].pc = "update" /\ req[r].user.id = i
                                /\ Resolves(r)]_vars

\* two logins read the same empty lists; the first wrote ip1, the second
\* wrote ip2 over it
C15_Witness ==
    /\ \A r \in Slots : req[r].pc = "done" /\ req[r].status = 200
    /\ Len(ipLog) = 2 /\ ipLog[1].ip = "ip1" /\ ipLog[2].ip = "ip2"
    /\ db[1].ipHistory = <<"ip2">>

\* C16: without JWT_SECRET the process fails while it starts, so that no
\* request is ever received and no token ever issued without it; and the
\* login's own check answers a missing secret with 500 and no token, for
\* every account and every outcome of the alert.
C16_NoSecretNoToken ==
    /\ ~jwtSecret => (server # "up" /\ started = 0 /\ \A r \in Slots : req[r] = Idle)
    /\ \A r \in Slots : req[r].token # NoToken => jwtSecret
    /\ \A user \in Range(db) \cup {SeedAccount(0, TRUE)}, alert \in BOOLEAN,
         mail \in {"none", "ok", "threw"} :
           LET answer == LoginAnswer(FALSE, user, alert, mail)
           IN /\ answer.pc = "done" /\ answer.status = 500
              /\ answer.token = NoToken /\ ~answer.securityAlert

\* the process did not start
C16_Witness == ~jwtSecret /\ server = "crashed"

\* the stored value is a bcrypt hash of the plaintext pw
IsHashOf(stored, pw) == \E salt \in Salts : stored = BcryptHash(pw, salt)

\* C19: a registration answered 201 inserted exactly one row and changed no
\* other; the row has empty ipHistory and deviceHistory, no lastLoginIp, the
\* alert preference on, and as password the hash of the plaintext, computed
\* before the row is written.
C19_RegisterPersistsOneHashedAccount ==
    [][\A r \in Slots :
         (req[r].pc = "create" /\ req'[r].status = 201) =>
            /\ Len(db') = Len(db) + 1
            /\ \A i \in 1..Len(db) : db'[i] = db[i]
            /\ LET row == db'[Len(db')]
               IN /\ row.id = Len(db') /\ req'[r].user.id = row.id
                  /\ row.name = req[r].name /\ row.email = req[r].email
                  /\ row.ipHistory = <<>> /\ row.deviceHistory = <<>>
                  /\ row.lastLoginIp = NULL
                  /\ row.newDeviceAlert
                  /\ IsHashOf(row.password, req[r].password)
                  /\ comparePassword(row, req[r].password)]_vars

\* a second account was registered beside the first
C19_Witness ==
    \E r \in Slots :
        /\ req[r].pc = "done" /\ req[r].kind = "register" /\ req[r].status = 201
        /\ Len(db) = 2 /\ db[2].email = req[r].email /\ req[r].user.id = 2
        /\ db[2].ipHistory = <<>> /\ db[2].newDeviceAlert
        /\ IsHashOf(db[2].password, "password1")

\* C20: a login calls the mail collaborator at most once, at the step that
\* classifies it and exactly when the login qualifies for an alert; a failed
\* dispatch is not called again by its handler, and a later request calls it
\* only if that request qualifies itself.
C20_MailAtMostOncePerLogin ==
    /\ [](\A r \in Slots :
            /\ req[r].attempts \in {0, 1}
            /\ (req[r].attempts = 1) <=> (req[r].mail # "none")
            /\ Classified(r) =>
                 ((req[r].attempts = 1) <=>
                    ShouldAlert(AbsentIp(r), AbsentDevice(r), req[r].user.newDeviceAlert)))
    /\ [][\A r \in Slots :
            /\ req'[r].attempts # req[r].attempts =>
                 \/ Verifies(r) /\ req'[r].attempts = req[r].attempts + 1
                 \/ req[r].pc = "done" /\ req'[r] = Idle
            /\ (req[r].pc = "mailing" /\ req'[r].mail = "threw") =>
                 req'[r].pc = "update" /\ req'[r].attempts = req[r].attempts]_vars

\* the alert of one login failed; a later login to the same account from the
\* address that login recorded is classified without a call
C20_Witness ==
    /\ req["r1"].pc = "done" /\ req["r1"].mail = "threw" /\ req["r1"].attempts = 1
    /\ req["r2"].pc = "update" /\ req["r2"].attempts = 0
    /\ req["r2"].user.id = req["r1"].user.id /\ req["r2"].user.newDeviceAlert
    /\ Len(ipLog) = 1 /\ ipLog[1].ip = req["r2"].ip

\* the body carries the password or the hash of an account of the table
CarriesPassword(body) ==
    \/ \E k \in body.keys : k \in {"password", "user.password"}
    \/ \E i \in 1..Len(db) :
          db[i].password \in body.hashes \/ db[i].password.plain \in body.strings

\* C17: no answer of register, login or the user listing carries an
\* account's password or its hash; 201 of register carries id and email only,
\* 200 of login carries token, securityAlert and user {id, name, email} only,
\* and an instance read under the default scope has no password field.
C17_NoPasswordInResponses ==
    /\ \A r \in Slots :
         req[r].pc = "done" =>
            /\ ~CarriesPassword(req[r].body)
            /\ (req[r].kind = "register" /\ req[r].status = 201) =>
                 req[r].body.keys = {"id", "email"}
            /\ (req[r].kind = "login" /\ req[r].status = 200) =>
                 req[r].body.keys = {"token", "securityAlert", "user", "user.id",
                                     "user.name", "user.email"}
    /\ \A i \in 1..Len(db) :
         /\ ~("password" \in DOMAIN Select(db[i], defaultScope))
         /\ "password" \in DOMAIN Select(db[i], withPassword)

\* the listing answered with two accounts, one of them registered in this run
C17_Witness ==
    \E r \in Slots :
        /\ req[r].pc = "done" /\ req[r].kind = "list" /\ req[r].status = 200
        /\ Len(db) = 2 /\ req[r].body.keys = defaultScope
        /\ "b@x.com" \in req[r].body.strings

\* the token is there, signed with the server's key and not expired
ValidBearer(bearer) ==
    bearer # NoBearer /\ bearer.key = "JWT_SECRET" /\ ~bearer.expired

\* handler r is past authentication, in the code of an events route
InEventHandler(r) ==
    req[r].pc \in {"eventCreate", "eventFind", "eventUpdate", "eventDestroy"}

\* C18: the events table changes only in a step of a create, update or
\* delete request whose token is correctly signed, not expired and names an
\* account of the table; a request to any of the three routes with a missing,
\* expired or badly signed token (or one naming no account) is answered the
\* same 401, never enters the route's handler, and changes no event.
C18_EventsNeedValidToken ==
    /\ [](\A r \in Slots :
            /\ InEventHandler(r) =>
                 /\ ValidBearer(req[r].bearer)
                 /\ req[r].bearer.id \in 1..Len(db)
                 /\ req[r].user.id = req[r].bearer.id
            /\ (req[r].kind \in EventKinds /\ req[r].status = 401) =>
                 req[r] = Unauthorized(req[r].kind, req[r].bearer))
    /\ [][/\ events' # events =>
               \E r \in Slots : /\ req[r].kind \in EventKinds /\ InEventHandler(r)
                                /\ req'[r].pc = "done"
          /\ \A r \in Slots, k \in EventKinds :
               (req[r].pc = "idle" /\ req'[r].kind = k) =>
                  /\ events' = events
                  /\ IF ValidBearer(req'[r].bearer)
                     THEN req'[r].pc = "authFind"
                     ELSE req'[r].pc = "done" /\ req'[r].status = 401
          /\ \A r \in Slots :
               (/\ req[r].pc = "authFind" /\ req'[r] # req[r]
                /\ ~(req[r].bearer.id \in 1..Len(db))
                /\ req'[r].error # "persistence") =>
                  req'[r].status = 401 /\ events' = events]_vars

\* a delete with an expired token of the event's owner was answered 401 and
\* the event is still there, while another request created an event
C18_Witness ==
    \E r, q \in Slots :
        /\ req[r].pc = "done" /\ req[r].kind = "deleteEvent" /\ req[r].status = 401
        /\ req[r].bearer = Present(JwtSign(1), TRUE)
        /\ Len(events) = 2 /\ events[1] = SeedEvent
        /\ req[q].kind = "createEvent" /\ req[q].status = 201

C22_EmptyIpIsRecorded ==
    /\ [](\A r \in Slots :
            (Classified(r) /\ req[r].ip = "" /\ "" \in Range(req[r].user.ipHistory)) =>
               ~req[r].isNewIp)
    /\ [][\A r \in Slots :
            (Persists(r) /\ req[r].ip = "") =>
               /\ Len(db'[req[r].user.id].ipHistory) >= 1
               /\ db'[req[r].user.id].ipHistory[1] = ""
               /\ db'[req[r].user.id].lastLoginIp = ""]_vars

\* the second login without an address, after the first one recorded it
C22_Witness ==
    \E r \in Slots :
        /\ Classified(r) /\ req[r].ip = "" /\ ~req[r].isNewIp
        /\ Len(ipLog) = 1 /\ ipLog[1].ip = ""
        /\ req[r].user.lastLoginIp = ""
        /\ Len(req[r].user.ipHistory) >= 1 /\ req[r].user.ipHistory[1] = ""

RegisterOutcomes == {201, 400, 409, 500}
LoginOutcomes == {200, 400, 401, 404, 500}

\* C23: a register request is answered once, with 201, 400, 409 or 500, and
\* a login request once, with 200, 400, 401, 404 or 500; when a find, create
\* or update of the handler is rejected, the handler answers 500 in that
\* step (nothing is left unanswered by the rejection).
C23_OneOutcomeAndPersistenceIs500 ==
    /\ [](\A r \in Slots :
            /\ (req[r].pc = "done" /\ req[r].kind = "register") =>
                 req[r].status \in RegisterOutcomes
            /\ (req[r].pc = "done" /\ req[r].kind = "login") =>
                 req[r].status \in LoginOutcomes
            /\ req[r].pc # "done" => req[r].status = 0
            /\ req[r].error # "" => (req[r].pc = "done" /\ req[r].status = 500))
    /\ [][\A r \in Slots :
            /\ req'[r].status # req[r].status =>
                 \/ req[r].status = 0 /\ req'[r].pc = "done"
                 \/ req[r].pc = "done" /\ req'[r] = Idle
            /\ (req[r].pc = "done" /\ req'[r] # req[r]) => req'[r] = Idle]_vars

\* a register and a login both answered 500 after a rejected persistence call
C23_Witness ==
    \E r, q \in Slots :
        /\ req[r].pc = "done" /\ req[r].kind = "register"
        /\ req[r].status = 500 /\ req[r].error = "persistence"
        /\ req[q].pc = "done" /\ req[q].kind = "login"
        /\ req[q].status = 500 /\ req[q].error = "persistence"

\* C24: the token of a login answered 200 is signed over the id of the
\* account the handler read for the request's email and verified the
\* request's password against, over nothing else, and expires in one hour.
C24_TokenIsForVerifiedAccount ==
    /\ [](\A r \in Slots :
            /\ Classified(r) =>
                 /\ comparePassword(req[r].user, req[r].password)
                 /\ req[r].user.email = req[r].email
            /\ (req[r].pc = "done" /\ req[r].kind = "login") =>
                 IF req[r].status = 200
                 THEN /\ DOMAIN req[r].token = {"id", "expiresIn"}
                      /\ req[r].token.id = req[r].user.id
                      /\ req[r].token.expiresIn = "1h"
                      /\ db[req[r].token.id].email = req[r].email
                 ELSE req[r].token = NoToken)
    /\ [][\A r \in Slots :
            (req[r].pc = "update" /\ req'[r].status = 200) =>
               req'[r].token.id = req[r].user.id]_vars

\* a token for the second account, registered in this run
C24_Witness ==
    \E r \in Slots :
        /\ req[r].pc = "done" /\ req[r].kind = "login" /\ req[r].status = 200
        /\ req[r].token.id = 2 /\ req[r].token.expiresIn = "1h"
        /\ Len(db) = 2 /\ db[2].email = "b@x.com" /\ req[r].email = "b@x.com"

\* C25: a row of the events table is changed or destroyed only in a step of
\* a handler authenticated as the account in the row's createdBy; a PUT or
\* DELETE authenticated as another account is answered 403 and changes
\* nothing; an update keeps the row's id, createdBy and date; and a created
\* row has the creating account as createdBy.
C25_OnlyOwnerChangesEvent ==
    [][/\ \A i \in 1..Len(events) :
            events'[i] # events[i] =>
               /\ \E r \in Slots :
                     /\ req[r].pc \in {"eventUpdate", "eventDestroy"}
                     /\ req[r].event.id = i /\ req'[r].pc = "done"
                     /\ req[r].user.id = events[i].createdBy
                     /\ req[r].bearer.id = events[i].createdBy
                     /\ req[r].pc = "eventDestroy" <=> events'[i] = NoEvent
               /\ events'[i] # NoEvent =>
                     /\ events'[i].id = events[i].id
                     /\ events'[i].createdBy = events[i].createdBy
                     /\ events'[i].date = events[i].date
       /\ \A r \in Slots :
            /\ (/\ req[r].pc = "eventFind" /\ Resolves(r)
                /\ FindEvent(events, req[r].eventId) # 0
                /\ events[req[r].eventId].createdBy # req[r].user.id) =>
                  req'[r].status = 403 /\ events' = events
            /\ (req[r].pc = "eventCreate" /\ Resolves(r)) =>
                  /\ Len(events') = Len(events) + 1
                  /\ events'[Len(events')].createdBy = req[r].bearer.id]_vars

\* the owner's update was applied and another account's request was refused
C25_Witness ==
    \E r, q \in Slots :
        /\ req[r].pc = "done" /\ req[r].status = 403
        /\ req[q].pc = "done" /\ req[q].kind = "updateEvent" /\ req[q].status = 200
        /\ Len(events) = 1 /\ events[1].title = "t2"
        /\ events[1].createdBy = 1 /\ events[1].date = SeedEvent.date

\* C26: of two overlapping register requests with one email, the one whose
\* create comes when the email is already in the table creates no account
\* and is answered 409, the other creates the only account with that email
\* and is answered 201.
C26_ConcurrentRegisterConflicts ==
    [][\A r \in Slots :
         (req[r].pc = "create" /\ Resolves(r)) =>
            IF EmailExists(req[r].email)
            THEN req'[r].status = 409 /\ db' = db
            ELSE /\ req'[r].status = 201
                 /\ Len(db') = Len(db) + 1
                 /\ db'[Len(db')].email = req[r].email]_vars

\* the distinct addresses of the logins persisted so far, most recently used
\* first
DistinctRecentIps == SetSpread(RecentIps(Len(ipLog)))

\* C27: after any sequence of successful logins made one after another to an
\* account that started with no history, each of the 5 most recently used
\* distinct addresses is in ipHistory (and so is not new on the next login).
C27_RecentFiveAreKnown ==
    \A x \in Range(Slice(DistinctRecentIps, 5)) : Includes(db[1].ipHistory, x)

C29_LastLoginIpIsFirstOfHistory ==
    \A i \in 1..Len(db) :
        Len(db[i].ipHistory) > 0 => db[i].lastLoginIp = db[i].ipHistory[1]

\* two logins from different addresses that read the same row have both
\* written it
C29_Witness ==
    /\ \A r \in Slots : req[r].pc = "done" /\ req[r].kind = "login" /\ req[r].status = 200
    /\ Len(ipLog) = 2 /\ ipLog[1].ip # ipLog[2].ip
    /\ db[1].ipHistory = <<ipLog[2].ip, "ip1">>
    /\ db[1].lastLoginIp = ipLog[2].ip

============================================================================
